---- MODULE Spec2Model ----
(***************************************************************************)
(* A model of focus (gabriel-sparkes/focus): a session appends a block     *)
(* region to the host file, a watcher thread re-appends it when it is      *)
(* missing, and three paths end the session: timer expiry, the Ctrl-C      *)
(* handler, and the stop command of another process.                       *)
(*                                                                         *)
(* The host file is a sequence of tokens.  A token is a piece of text the  *)
(* code never splits: a marker line's text, a newline, a tab, the block    *)
(* address, a hostname, or a line of foreign text.                         *)
(*                                                                         *)
(* src/ holds two generations of the session code.  build = "main" is      *)
(* main.rs as it stands (inline append, inline watcher, inline handler).   *)
(* build = "util" is the same driver with the three pieces replaced by     *)
(* their util.rs successors block_sites, start_checker_thead and           *)
(* ctrlc_handler, whose call sites are not in src/.                        *)
(*                                                                         *)
(* Threads and processes interleave freely: a thread::sleep is a step and  *)
(* gives no ordering.  SpecGrace is the same system under the timing       *)
(* assumption the 100 ms sleep of main.rs:199 is there for.  SpecFair adds *)
(* the scheduling of the watcher thread, SpecIO lets reads and writes of   *)
(* the host file fail, and SpecCmd runs the status, add and remove         *)
(* commands of util.rs beside the sessions.                                *)
(***************************************************************************)
EXTENDS Integers, Sequences, FiniteSets, TLC

\* ------------------------------------------------------------- bounds
\* sessions started, each once the one before it is past its start-up
MaxProcs == 2
\* the weight of what happens beyond a plain first session: 1 for an
\* external edit, a kill -9, a failed file operation, a stop, status, add or
\* remove command, a --add argument and a session started after the one
\* before it has ended, 2 for a session started beside a live one
MaxEvents == 2

Procs == 1..MaxProcs

\* ------------------------------------------------------------- tokens
NL == "\n"
TAB == "\t"
BEGIN == "# BEGIN FOCUS BLOCK"
END == "# END FOCUS BLOCK"
\* config.block_ip (the scenario of the spec uses 0.0.0.0)
block_ip == "0.0.0.0"
\* the host file before any session: "127.0.0.1 localhost\n"
Base == <<"127.0.0.1 localhost", NL>>
\* config.blocked_sites as persisted before any command
InitSites == <<"example.com">>

VARIABLES
  build,      \* which generation of the session code runs: "main" or "util"
  hosts,      \* the host file's content
  pidFile,    \* <log_directory>/focus.pid: 0 when absent, else the pid in it
  cfgFile,    \* the persisted config.blocked_sites
  pc,         \* per process: the main thread's position
  wpc,        \* per process: the watcher thread's position
  hpc,        \* per process: the Ctrl-C handler thread's position
  running,    \* per process: the shared AtomicBool
  original,   \* per process: original_content
  background, \* per process: args.background
  sites,      \* per process: config.blocked_sites in memory
  hnew,       \* per process: ctrlc_handler's new_content
  spc,        \* the stop command's position
  spid,       \* the stop command's pid (0: none read)
  snew,       \* the stop command's new_content
  sstart,     \* whether the stop command began with no session alive and
              \* has run undisturbed since, and the host file it began on
  tpc,        \* the status command's position
  treport,    \* the lines the status command has printed
  cmds,       \* the add and remove commands run so far, with their lists
  events,     \* outside events so far
  foreign     \* per process: the host file was written by another process,
              \* or by hand, since the process took its snapshot

vars == <<build, hosts, pidFile, cfgFile, pc, wpc, hpc, running, original,
          background, sites, hnew, spc, spid, snew, sstart, tpc, treport,
          cmds, events, foreign>>

files == <<hosts, pidFile, cfgFile>>
stopv == <<spc, spid, snew>>
envv == <<events, foreign>>
cmdv == <<tpc, treport, cmds>>
conf == <<build, cmdv, sstart, background, sites>>

\* ------------------------------------------------------- pure functions

RECURSIVE Lines(_)
\* the loop of build_blocked_content: "{block_ip}\t{site}\n" per site
Lines(s) ==
  IF s = <<>> THEN <<>>
  ELSE <<block_ip, TAB, Head(s), NL>> \o Lines(Tail(s))

build_blocked_content(s) == <<NL, BEGIN, NL>> \o Lines(s) \o <<END>>

\* str::contains
contains(t, s) ==
  \E i \in 1..(Len(t) - Len(s) + 1) : SubSeq(t, i, i + Len(s) - 1) = s

\* the least index >= from of tok in t, 0 when there is none
IndexFrom(t, tok, from) ==
  IF \E i \in from..Len(t) : t[i] = tok
  THEN CHOOSE i \in from..Len(t) :
         t[i] = tok /\ \A j \in from..(i - 1) : t[j] # tok
  ELSE 0

\* a check that never finds the region
never_match(t) == FALSE

\* Regex::is_match for REGEX: a BEGIN marker with an END marker after it
is_match(t) ==
  LET b == IndexFrom(t, BEGIN, 1)
  IN  b # 0 /\ IndexFrom(t, END, b + 1) # 0

RECURSIVE replace_all(_)
\* Regex::replace_all(text, "") for REGEX: every leftmost, lazy,
\* non-overlapping match, from a BEGIN marker to the first END marker after it
replace_all(t) ==
  LET b == IndexFrom(t, BEGIN, 1)
      e == IF b = 0 THEN 0 ELSE IndexFrom(t, END, b + 1)
  IN  IF e = 0 THEN t
      ELSE SubSeq(t, 1, b - 1) \o replace_all(SubSeq(t, e + 1, Len(t)))

Count(t, tok) == Cardinality({i \in 1..Len(t) : t[i] = tok})

Alive(p) ==
  pc[p] \notin {"init", "failed", "expired", "interrupted", "crashed"}

\* p is past its start-up: it blocks, tears down, or has ended
Started(p) == pc[p] \notin {"init", "pidcheck", "daemon", "snapshot", "append"}

\* no later session has been started: a session beside which a later one is
\* started lasts longer than the model looks
Latest(p) == \A q \in Procs : q > p => pc[q] = "init"

\* A process that ends takes its threads and its memory with it.
Ended(f, p, v) == [f EXCEPT ![p] = v]

\* the stop command has not begun, or not alone
NoQuiet == [quiet |-> FALSE, hosts |-> <<>>]

\* ----------------------------------------------------------------- Init

Init ==
  /\ build \in {"main", "util"}
  /\ hosts = Base
  /\ pidFile = 0
  /\ cfgFile = InitSites
  /\ pc = [p \in Procs |-> "init"]
  /\ wpc = [p \in Procs |-> "off"]
  /\ hpc = [p \in Procs |-> "off"]
  /\ running = [p \in Procs |-> FALSE]
  /\ original = [p \in Procs |-> <<>>]
  /\ background = [p \in Procs |-> FALSE]
  /\ sites = [p \in Procs |-> <<>>]
  /\ hnew = [p \in Procs |-> <<>>]
  /\ spc = "init"
  /\ spid = 0
  /\ snew = <<>>
  /\ sstart = NoQuiet
  /\ tpc = "init"
  /\ treport = <<>>
  /\ cmds = <<>>
  /\ events = 0
  /\ foreign = [p \in Procs |-> FALSE]

\* A write to the host file by process w (0: by no session) is a foreign
\* write to every other process that holds a snapshot.
Touch(w) ==
  foreign' = [q \in Procs |->
               IF q # w /\ pc[q] \in {"append", "sleep", "restore", "return"}
               THEN TRUE ELSE foreign[q]]

\* The process ends as `how`.
Exit(p, how) ==
  /\ pc' = [pc EXCEPT ![p] = how]
  /\ wpc' = Ended(wpc, p, "off")
  /\ hpc' = Ended(hpc, p, "off")
  /\ running' = Ended(running, p, FALSE)
  /\ original' = Ended(original, p, <<>>)
  /\ hnew' = Ended(hnew, p, <<>>)
  /\ sites' = Ended(sites, p, <<>>)
  /\ background' = Ended(background, p, FALSE)
  /\ foreign' = Ended(foreign, p, FALSE)

\* ------------------------------------------------------ the main thread

StartWeight(p, a) ==
  (IF p = 1 THEN 0 ELSE IF Alive(p - 1) THEN 2 ELSE 1)
  + (IF a = <<>> THEN 0 ELSE 1)

\* the values of --add a session is started with: none, or one site
AddArgs == {<<>>, <<"news.com">>}

\* main.rs 56-85: parse the arguments, load the configuration, merge the
\* sites of --add into the configuration in memory
Start(p, b, a) ==
  /\ pc[p] = "init"
  /\ p > 1 => Started(p - 1)
  /\ events + StartWeight(p, a) <= MaxEvents
  /\ events' = events + StartWeight(p, a)
  /\ pc' = [pc EXCEPT ![p] = "pidcheck"]
  /\ background' = [background EXCEPT ![p] = b]
  /\ sites' = [sites EXCEPT ![p] = cfgFile \o a]
  /\ sstart' = NoQuiet
  /\ UNCHANGED <<build, cmdv, files, wpc, hpc, running, original, hnew, stopv,
                 foreign>>

\* main.rs 87-95: a pid file that exists is called stale and deleted
PidCheck(p) ==
  /\ pc[p] = "pidcheck"
  /\ pidFile' = 0
  /\ pc' = [pc EXCEPT ![p] = "daemon"]
  /\ UNCHANGED <<conf, hosts, cfgFile, wpc, hpc, running, original, hnew,
                 stopv, envv>>

\* main.rs 97-115: in the background Daemonize writes the daemon's pid to
\* the pid file; in the foreground play_audio only
Daemonize(p) ==
  /\ pc[p] = "daemon"
  /\ pc' = [pc EXCEPT ![p] = "snapshot"]
  /\ pidFile' = IF background[p] THEN p ELSE pidFile
  /\ UNCHANGED <<conf, hosts, cfgFile, wpc, hpc, running, original, hnew,
                 stopv, envv>>

\* main.rs 117-156: the flag, the snapshot of the host file, the handler
Snapshot(p) ==
  /\ pc[p] = "snapshot"
  /\ running' = [running EXCEPT ![p] = TRUE]
  /\ original' = [original EXCEPT ![p] = hosts]
  /\ hpc' = [hpc EXCEPT ![p] = "idle"]
  /\ pc' = [pc EXCEPT ![p] = "append"]
  /\ UNCHANGED <<conf, files, wpc, hnew, stopv, envv>>

\* an insertion that forgets the closing marker
MainAppendNoEnd(t, s) == t \o <<NL, BEGIN, NL>> \o Lines(s)

\* main.rs 158-186: the region is appended whatever the file holds
MainAppend(t, s) == t \o build_blocked_content(s)

\* util.rs 233-282 block_sites: nothing is written when REGEX matches
block_sites(t, s) ==
  IF is_match(t) THEN t ELSE t \o build_blocked_content(s)

\* main.rs 158-195: the insertion, then the watcher is spawned
Insert(p) ==
  /\ pc[p] = "append"
  /\ hosts' = IF build = "main" THEN MainAppend(hosts, sites[p])
              ELSE block_sites(hosts, sites[p])
  /\ IF build = "util" /\ is_match(hosts) THEN UNCHANGED foreign ELSE Touch(p)
  /\ wpc' = [wpc EXCEPT ![p] = "check"]
  /\ pc' = [pc EXCEPT ![p] = "sleep"]
  /\ UNCHANGED <<conf, pidFile, cfgFile, hpc, running, original, hnew,
                 stopv, events>>

\* main.rs 196-199: the duration elapses, running.store(false), then the
\* sleep of 100 ms
Expire(p) ==
  /\ pc[p] = "sleep"
  /\ Latest(p)
  /\ running' = [running EXCEPT ![p] = FALSE]
  /\ pc' = [pc EXCEPT ![p] = "restore"]
  /\ UNCHANGED <<conf, files, wpc, hpc, original, hnew, stopv, envv>>

\* main.rs 201-213: fs::write(hosts_path, original_content)
Restore(p) ==
  /\ pc[p] = "restore"
  /\ hosts' = original[p]
  /\ Touch(p)
  /\ pc' = [pc EXCEPT ![p] = "return"]
  /\ UNCHANGED <<conf, pidFile, cfgFile, wpc, hpc, running, original, hnew,
                 stopv, events>>

\* main.rs 199-213 when the tick the watcher is in as the flag flips takes
\* less than the 100 ms the main thread sleeps: the restore finds the
\* watcher between ticks or gone
RestoreGrace(p) ==
  /\ wpc[p] \notin {"read", "write"}
  /\ Restore(p)

\* main.rs 214-217: the end audio, then main returns and the process ends
Return(p) ==
  /\ pc[p] = "return"
  /\ Exit(p, "expired")
  /\ UNCHANGED <<build, cmdv, sstart, files, stopv, events>>

\* -------------------------------------------------- the watcher thread

\* a watcher that loops without looking at the flag
WCheckBlind(p) ==
  /\ wpc[p] = "check"
  /\ wpc' = [wpc EXCEPT ![p] = "read"]
  /\ UNCHANGED <<conf, files, pc, hpc, running, original, hnew, stopv, envv>>

\* main.rs 235 / util.rs 104: while running.load()
WCheck(p) ==
  /\ wpc[p] = "check"
  /\ wpc' = [wpc EXCEPT ![p] = IF running[p] THEN "read" ELSE "done"]
  /\ UNCHANGED <<conf, files, pc, hpc, running, original, hnew, stopv, envv>>

\* a watcher that looks for the markers, as block_sites does, and not for
\* the region
tampered_by_regex(t, s) == ~is_match(t)

\* main.rs 237 / util.rs 105-107: !current_content.contains(&blocked_content)
tampered(t, s) == ~contains(t, build_blocked_content(s))

\* main.rs 236-237 / util.rs 105-107: read the file, look for the region;
\* when it is there the tick ends in the sleep of main.rs 256 / util.rs 126
WRead(p) ==
  /\ wpc[p] = "read"
  /\ wpc' = [wpc EXCEPT ![p] =
       IF tampered(hosts, sites[p]) THEN "write" ELSE "check"]
  /\ UNCHANGED <<conf, files, pc, hpc, running, original, hnew, stopv, envv>>

\* main.rs 238-252 / util.rs 108-122: what the append leaves in the file
Reblock(t, s) == t \o build_blocked_content(s)

\* main.rs 238-256 / util.rs 108-126: append the region, then sleep
WWrite(p) ==
  /\ wpc[p] = "write"
  /\ hosts' = Reblock(hosts, sites[p])
  /\ Touch(p)
  /\ wpc' = [wpc EXCEPT ![p] = "check"]
  /\ UNCHANGED <<conf, pidFile, cfgFile, pc, hpc, running, original, hnew,
                 stopv, events>>

\* ------------------------------------------------- the Ctrl-C handler

\* main.rs 141-142: running.store(false), save_config(config);
\* util.rs 69: running.store(false).  The handler thread is woken by the
\* signal; hpc names the step it takes next.
HandlerEnter(p) ==
  /\ running' = [running EXCEPT ![p] = FALSE]
  /\ cfgFile' = IF build = "main" THEN sites[p] ELSE cfgFile
  /\ hpc' = [hpc EXCEPT ![p] = IF build = "main" THEN "write" ELSE "read"]
  /\ UNCHANGED <<pc, wpc, original, hnew, sites, background, foreign>>

\* The default action of a signal no handler is installed for, and SIGKILL.
Killed(p) ==
  /\ Exit(p, "crashed")
  /\ UNCHANGED cfgFile

\* SIGINT; a signal that arrives while the handler runs changes nothing,
\* since the handler ends the process
Interrupt(p) ==
  /\ Alive(p)
  /\ Latest(p)
  /\ hpc[p] \in {"off", "idle"}
  /\ IF hpc[p] = "idle" THEN HandlerEnter(p) ELSE Killed(p)
  /\ UNCHANGED <<build, cmdv, sstart, hosts, pidFile, stopv, events>>

\* util.rs 72-77: read the file, replace_all
HRead(p) ==
  /\ hpc[p] = "read"
  /\ hnew' = [hnew EXCEPT ![p] = replace_all(hosts)]
  /\ hpc' = [hpc EXCEPT ![p] = "write"]
  /\ UNCHANGED <<conf, files, pc, wpc, running, original, stopv, envv>>

\* main.rs 145: fs::write(hosts_path, handler_content);
\* util.rs 78: fs::write(hosts_path, new_content)
HWrite(p) ==
  /\ hpc[p] = "write"
  /\ hosts' = IF build = "main" THEN original[p] ELSE hnew[p]
  /\ Touch(p)
  /\ hpc' = [hpc EXCEPT ![p] = "exit"]
  /\ UNCHANGED <<conf, pidFile, cfgFile, pc, wpc, running, original, hnew,
                 stopv, events>>

\* main.rs 148-154: the end audio, process::exit(0);
\* util.rs 81-85: the end audio, remove_file(pid_path), process::exit(0)
HExit(p) ==
  /\ hpc[p] = "exit"
  /\ pidFile' = IF build = "main" THEN pidFile ELSE 0
  /\ Exit(p, "interrupted")
  /\ UNCHANGED <<build, cmdv, sstart, hosts, cfgFile, stopv, events>>

\* ------------------------------------------------------ the environment

\* kill -9, a power cut: the process ends wherever it is
Crash(p) ==
  /\ Alive(p)
  /\ events < MaxEvents
  /\ events' = events + 1
  /\ Killed(p)
  /\ UNCHANGED <<build, cmdv, sstart, hosts, pidFile, stopv>>

\* t without its tokens from index a to index b
Cut(t, a, b) == SubSeq(t, 1, a - 1) \o SubSeq(t, b + 1, Len(t))

\* What a user's editor can leave of t: the first region's lines deleted
\* (with the newline before them), only its opening marker line deleted,
\* only its closing marker deleted, the line after the opening marker
\* deleted, or the file replaced by the plain one.
Tampered(t) ==
  LET b == IndexFrom(t, BEGIN, 1)
      e == IF b = 0 THEN 0 ELSE IndexFrom(t, END, b + 1)
  IN  {Base}
      \cup (IF e # 0 /\ b > 1 THEN {Cut(t, b - 1, e)} ELSE {})
      \cup (IF b # 0 /\ b < Len(t) THEN {Cut(t, b, b + 1)} ELSE {})
      \cup (IF e # 0 THEN {Cut(t, e, e)} ELSE {})
      \cup (IF e > b + 5 THEN {Cut(t, b + 2, b + 5)} ELSE {})

ExternalEdit ==
  /\ events < MaxEvents
  /\ \E t \in Tampered(hosts) : t # hosts /\ hosts' = t
  /\ Touch(0)
  /\ events' = events + 1
  /\ sstart' = NoQuiet
  /\ UNCHANGED <<build, cmdv, background, sites, pidFile, cfgFile, pc, wpc,
                 hpc, running, original, hnew, stopv>>

\* --------------------------------------------- the stop command's process

\* util.rs 157-160: read and parse the pid file
StopStart ==
  /\ spc = "init"
  /\ events < MaxEvents
  /\ events' = events + 1
  /\ spid' = pidFile
  /\ spc' = IF pidFile # 0 THEN "kill" ELSE "check"
  /\ sstart' = IF \A p \in Procs : ~Alive(p)
                THEN [quiet |-> TRUE, hosts |-> hosts]
                ELSE NoQuiet
  /\ UNCHANGED <<build, cmdv, background, sites, files, pc, wpc, hpc,
                 running, original, hnew, snew,
                 foreign>>

\* util.rs 163: kill <pid>, a SIGTERM.  Whether the handler of ctrlc runs on
\* SIGTERM is the crate's "termination" feature, which src/ does not show:
\* either the handler runs or the default action ends the process.
StopKill ==
  /\ spc = "kill"
  /\ spc' = "read"
  /\ IF Alive(spid) /\ hpc[spid] \in {"off", "idle"}
     THEN \E handled \in BOOLEAN :
            IF handled /\ hpc[spid] = "idle"
            THEN HandlerEnter(spid)
            ELSE Killed(spid)
     ELSE UNCHANGED <<pc, wpc, hpc, running, cfgFile, original, hnew, sites,
                      background, foreign>>
  /\ UNCHANGED <<build, cmdv, sstart, hosts, pidFile, spid, snew, events>>

\* util.rs 167-172: read the file, replace_all
StopRead ==
  /\ spc = "read"
  /\ snew' = replace_all(hosts)
  /\ spc' = "write"
  /\ UNCHANGED <<conf, files, pc, wpc, hpc, running, original, hnew, spid,
                 envv>>

\* util.rs 173: fs::write(hosts_path, new_content)
StopWrite ==
  /\ spc = "write"
  /\ hosts' = snew
  /\ Touch(0)
  /\ spc' = "rmpid"
  /\ UNCHANGED <<conf, pidFile, cfgFile, pc, wpc, hpc, running, original,
                 hnew, spid, snew, events>>

\* util.rs 175-176: sleep 500 ms, remove_file(pid_path)
StopRmPid ==
  /\ spc = "rmpid"
  /\ pidFile' = 0
  /\ spc' = "check"
  /\ UNCHANGED <<conf, hosts, cfgFile, pc, wpc, hpc, running, original, hnew,
                 spid, snew, envv>>

\* util.rs 187-200: read the file again; strip when REGEX matches
StopCheck ==
  /\ spc = "check"
  /\ snew' = replace_all(hosts)
  /\ spc' = IF is_match(hosts) THEN "write2" ELSE "done"
  /\ UNCHANGED <<conf, files, pc, wpc, hpc, running, original, hnew, spid,
                 envv>>

\* util.rs 197: fs::write(hosts_path, new_content)
StopWrite2 ==
  /\ spc = "write2"
  /\ hosts' = snew
  /\ Touch(0)
  /\ spc' = "done"
  /\ UNCHANGED <<conf, pidFile, cfgFile, pc, wpc, hpc, running, original,
                 hnew, spid, snew, events>>

\* ------------------------------------------------- the status command

\* a status that looks at the process the pid file names
is_active_live(pf) == pf # 0 /\ Alive(pf)

\* util.rs 142: Path::new(&pid_path).exists()
is_active(pf) == pf # 0

\* util.rs 141-146: the line about the session
StatusPid ==
  /\ tpc = "init"
  /\ events < MaxEvents
  /\ events' = events + 1
  /\ treport' = <<IF is_active(pidFile) THEN "Focus is running"
                  ELSE "Focus is not running">>
  /\ tpc' = "read"
  /\ UNCHANGED <<build, sstart, cmds, background, sites, files, pc, wpc, hpc,
                 running, original, hnew, stopv, foreign>>

\* util.rs 148-153: read the host file, the line about the region
StatusRead ==
  /\ tpc = "read"
  /\ treport' = Append(treport, IF is_match(hosts) THEN "Sites are blocked"
                                ELSE "Sites are not blocked")
  /\ tpc' = "done"
  /\ UNCHANGED <<build, sstart, cmds, background, sites, files, pc, wpc, hpc,
                 running, original, hnew, stopv, envv>>

\* ---------------------------------------- the add and remove commands

\* the lists of URLs a command is given
UrlLists ==
  {<<>>, <<"example.com">>, <<"news.com">>, <<"news.com", "example.com">>,
   <<"news.com", "news.com">>}

\* Vec::contains
has(u, x) == \E i \in 1..Len(u) : u[i] = x

\* an add that skips the sites the list already holds
add_new_urls(c, u) ==
  IF u = <<>> THEN c ELSE c \o SelectSeq(u, LAMBDA x : ~has(c, x))

\* util.rs 203-216 add_urls: what config.toml holds after the command
add_urls(c, u) == IF u = <<>> THEN c ELSE c \o u

\* util.rs 218-231 remove_urls: what config.toml holds after the command
remove_urls(c, u) ==
  IF u = <<>> THEN c ELSE SelectSeq(c, LAMBDA x : ~has(u, x))

AddUrls(u) ==
  /\ events < MaxEvents
  /\ events' = events + 1
  /\ cfgFile' = add_urls(cfgFile, u)
  /\ cmds' = Append(cmds, <<"add", u>>)
  /\ UNCHANGED <<build, sstart, tpc, treport, background, sites, hosts,
                 pidFile, pc, wpc, hpc, running, original, hnew, stopv,
                 foreign>>

RemoveUrls(u) ==
  /\ events < MaxEvents
  /\ events' = events + 1
  /\ cfgFile' = remove_urls(cfgFile, u)
  /\ cmds' = Append(cmds, <<"remove", u>>)
  /\ UNCHANGED <<build, sstart, tpc, treport, background, sites, hosts,
                 pidFile, pc, wpc, hpc, running, original, hnew, stopv,
                 foreign>>

\* every step but the restore of the expiry path
Steps ==
  \/ \E p \in Procs, b \in BOOLEAN, a \in AddArgs : Start(p, b, a)
  \/ \E p \in Procs : PidCheck(p)
  \/ \E p \in Procs : Daemonize(p)
  \/ \E p \in Procs : Snapshot(p)
  \/ \E p \in Procs : Insert(p)
  \/ \E p \in Procs : Expire(p)
  \/ \E p \in Procs : Return(p)
  \/ \E p \in Procs : WCheck(p)
  \/ \E p \in Procs : WRead(p)
  \/ \E p \in Procs : WWrite(p)
  \/ \E p \in Procs : Interrupt(p)
  \/ \E p \in Procs : HRead(p)
  \/ \E p \in Procs : HWrite(p)
  \/ \E p \in Procs : HExit(p)
  \/ \E p \in Procs : Crash(p)
  \/ ExternalEdit
  \/ StopStart
  \/ StopKill
  \/ StopRead
  \/ StopWrite
  \/ StopRmPid
  \/ StopCheck
  \/ StopWrite2

Next == Steps \/ \E p \in Procs : Restore(p)

Spec == Init /\ [][Next]_vars

NextGrace == Steps \/ \E p \in Procs : RestoreGrace(p)

\* The system when a watcher tick is shorter than the grace period.
SpecGrace == Init /\ [][NextGrace]_vars

\* The watcher thread is scheduled and its sleep ends: a step it can take
\* is taken.
WatcherFair ==
  \A p \in Procs : WF_vars(WCheck(p) \/ WRead(p) \/ WWrite(p))

SpecFair == Spec /\ WatcherFair

\* ------------------------------------------- failed file operations

\* main.rs 120-134: the host file cannot be read: process::exit(1)
SnapshotFail(p) ==
  /\ pc[p] = "snapshot"
  /\ events < MaxEvents
  /\ events' = events + 1
  /\ Exit(p, "failed")
  /\ UNCHANGED <<build, cmdv, sstart, files, stopv>>

\* util.rs 72-73: read_to_string(..).expect(..) panics in the handler.
\* Whether a panic unwinds the handler's thread and leaves the process
\* running or aborts the process is the build's panic strategy, which src/
\* does not show.
HReadFail(p) ==
  /\ hpc[p] = "read"
  /\ events < MaxEvents
  /\ events' = events + 1
  /\ \E abort \in BOOLEAN :
       IF abort THEN Killed(p)
       ELSE /\ hpc' = [hpc EXCEPT ![p] = "panicked"]
            /\ UNCHANGED <<pc, wpc, running, original, hnew, sites,
                           background, foreign, cfgFile>>
  /\ UNCHANGED <<build, cmdv, sstart, hosts, pidFile, stopv>>

\* main.rs 145 / util.rs 78: let _ = fs::write(..): the failure is dropped
HWriteFail(p) ==
  /\ hpc[p] = "write"
  /\ events < MaxEvents
  /\ events' = events + 1
  /\ hpc' = [hpc EXCEPT ![p] = "exit"]
  /\ UNCHANGED <<conf, files, pc, wpc, running, original, hnew, stopv,
                 foreign>>

\* util.rs 167-168: read_to_string(..).expect(..) panics in the stop command
StopReadFail ==
  /\ spc = "read"
  /\ events < MaxEvents
  /\ events' = events + 1
  /\ spc' = "panicked"
  /\ UNCHANGED <<conf, files, pc, wpc, hpc, running, original, hnew, spid,
                 snew, foreign>>

\* util.rs 173: let _ = fs::write(..): the failure is dropped
StopWriteFail ==
  /\ spc = "write"
  /\ events < MaxEvents
  /\ events' = events + 1
  /\ spc' = "rmpid"
  /\ UNCHANGED <<conf, files, pc, wpc, hpc, running, original, hnew, spid,
                 snew, foreign>>

\* util.rs 187-188: read_to_string(..).expect(..) panics in the stop command
StopCheckFail ==
  /\ spc = "check"
  /\ events < MaxEvents
  /\ events' = events + 1
  /\ spc' = "panicked"
  /\ UNCHANGED <<conf, files, pc, wpc, hpc, running, original, hnew, spid,
                 snew, foreign>>

\* util.rs 197: let _ = fs::write(..): the failure is dropped
StopWrite2Fail ==
  /\ spc = "write2"
  /\ events < MaxEvents
  /\ events' = events + 1
  /\ spc' = "done"
  /\ UNCHANGED <<conf, files, pc, wpc, hpc, running, original, hnew, spid,
                 snew, foreign>>

\* The system when reads and writes of the host file can fail.
NextIO ==
  \/ Next
  \/ \E p \in Procs : SnapshotFail(p)
  \/ \E p \in Procs : HReadFail(p)
  \/ \E p \in Procs : HWriteFail(p)
  \/ StopReadFail
  \/ StopWriteFail
  \/ StopCheckFail
  \/ StopWrite2Fail

SpecIO == Init /\ [][NextIO]_vars

\* The system with the status, add and remove commands run beside it.
NextCmd ==
  \/ Next
  \/ StatusPid
  \/ StatusRead
  \/ \E u \in UrlLists : AddUrls(u)
  \/ \E u \in UrlLists : RemoveUrls(u)

SpecCmd == Init /\ [][NextCmd]_vars

\* ---------------------------------------------------------------- claims

\* p runs main.rs, has not been signalled, and nobody else wrote the file
Undisturbed(p) == build = "main" /\ hpc[p] = "idle" /\ ~foreign[p]

C1_Blocked ==
  \A p \in Procs :
    Undisturbed(p) =>
      /\ pc[p] \in {"sleep", "restore"} =>
            hosts = original[p] \o build_blocked_content(sites[p])
      /\ pc[p] = "return" => hosts = original[p]

C1_Exit ==
  \A p \in Procs :
    (Undisturbed(p) /\ pc[p] = "return" /\ pc'[p] = "expired") =>
      hosts' = original[p]

C2_InterruptRestores ==
  [][\A p \in Procs :
       (pc[p] # "interrupted" /\ pc'[p] = "interrupted" /\ ~foreign[p]) =>
         (~is_match(hosts') /\ hosts' = original[p])]_vars

\* C3: once the stop command has returned, no write of the watcher or of
\* the signal handler of the process it signalled leaves a region in the
\* host file.
C3_StopIsFinal ==
  [][\A p \in Procs :
       (/\ spc = "done" /\ spid = p
        /\ \/ wpc[p] = "write" /\ wpc'[p] = "check"
           \/ hpc[p] = "write" /\ hpc'[p] = "exit") =>
         ~is_match(hosts')]_vars

\* C4: a session started on a file that holds the region of a crashed
\* session, and run to timer expiry or to its Ctrl-C handler's exit, leaves
\* the file without a region.
C4_CrashRecovery ==
  [][\A p \in Procs :
       (/\ pc[p] \notin {"expired", "interrupted"}
        /\ pc'[p] \in {"expired", "interrupted"}
        /\ \E q \in Procs : pc[q] = "crashed"
        /\ is_match(original[p])
        /\ ~foreign[p]) =>
         ~is_match(hosts')]_vars

\* C5: the host file never holds more than one opening marker nor more
\* than one closing marker.
C5_OneRegion == Count(hosts, BEGIN) <= 1 /\ Count(hosts, END) <= 1

\* C6: a block insertion that finds a region in the file leaves the file
\* as it is.
C6_InsertIdempotent ==
  [][\A p \in Procs :
       (pc[p] = "append" /\ pc'[p] = "sleep" /\ is_match(hosts)) =>
         hosts' = hosts]_vars

\* C7: stripping a marker-free text T with the rendered region appended
\* once gives T back, token for token.
C7_RoundTrip ==
  \A p \in Procs :
    (/\ pc[p] \in {"append", "sleep", "restore", "return"}
     /\ Count(original[p], BEGIN) = 0 /\ Count(original[p], END) = 0) =>
      replace_all(original[p] \o build_blocked_content(sites[p]))
        = original[p]

\* C8: every tick of the watcher ends with the full rendered region in the
\* host file as a verbatim substring, so a region an external edit removed
\* is back at the end of the next tick.
C8_WatcherRepairs ==
  [][\A p \in Procs :
       (wpc[p] \in {"read", "write"} /\ wpc'[p] = "check") =>
         contains(hosts', build_blocked_content(sites[p]))]_vars

\* an external edit deleted the opening marker line, the only outside
\* event, and the running watcher has appended the region again
C8_Witness ==
  /\ events = 1 /\ spc = "init" /\ pc[1] = "sleep"
  /\ running[1] /\ wpc[1] = "check"
  /\ Count(hosts, BEGIN) = 1 /\ Count(hosts, END) = 2
  /\ contains(hosts, build_blocked_content(sites[1]))

\* C9: a start that finds the pid file of a live process ends there: it
\* leaves the pid file as it is and goes no further.
C9_AlreadyActive ==
  [][\A p \in Procs :
       (/\ pc[p] = "pidcheck" /\ pc'[p] # "pidcheck"
        /\ pidFile # 0 /\ pidFile # p /\ Alive(pidFile)) =>
         (pidFile' = pidFile /\ pc'[p] \in {"expired", "crashed"})]_vars

\* C10: while a session blocks the pid file exists, and it does not name a
\* session that has ended by timer expiry or by its Ctrl-C handler.
C10_MarkerLifecycle ==
  /\ \A p \in Procs : pc[p] = "sleep" => pidFile # 0
  /\ pidFile # 0 => pc[pidFile] \notin {"expired", "interrupted"}

\* C11: once the restore of the expiry path or the handler's write has
\* written the unblocked content, the watcher of the same process appends
\* nothing more to the host file.
C11_NoAppendAfterTeardown ==
  [][\A p \in Procs :
       (pc[p] = "return" \/ hpc[p] = "exit") =>
         ~(wpc[p] = "write" /\ wpc'[p] = "check")]_vars

\* C12: what the stop command and the stripping handler of util.rs write
\* to the host file holds no opening and no closing marker.
C12_StripLeavesNoMarker ==
  [][(\/ spc = "write" /\ spc' = "rmpid"
      \/ spc = "write2" /\ spc' = "done"
      \/ \E p \in Procs :
           build = "util" /\ hpc[p] = "write" /\ hpc'[p] = "exit") =>
       (Count(hosts', BEGIN) = 0 /\ Count(hosts', END) = 0)]_vars

\* an opening marker with a closing marker somewhere after it
RegionIn(t) ==
  \E i \in 1..Len(t) : \E j \in (i + 1)..Len(t) : t[i] = BEGIN /\ t[j] = END

\* C13: a stop command that begins with no session alive and is not
\* disturbed (no session started, no external edit) ends with the host
\* file equal to the strip output of the content it began on, with no
\* matched region in it and with no pid file; on a file with no region it
\* ends with the file as it was.
C13_StopStrips ==
  [][(spc # "done" /\ spc' = "done" /\ sstart.quiet) =>
       /\ hosts' = replace_all(sstart.hosts)
       /\ ~RegionIn(hosts')
       /\ ~RegionIn(sstart.hosts) => hosts' = sstart.hosts
       /\ pidFile' = 0]_vars

\* the stop command has ended on a file that held a crashed session's
\* region and beside that session's stale pid file
C13_Witness ==
  /\ spc = "done" /\ sstart.quiet /\ spid # 0
  /\ RegionIn(sstart.hosts)
  /\ hosts # sstart.hosts /\ hosts = replace_all(sstart.hosts)
  /\ pidFile = 0

\* C17: no step of a session (start, watcher tick, expiry, interrupt)
\* changes the persisted configuration: only the add and remove commands
\* write it.
C17_ConfigUntouched ==
  [][Len(cmds') = Len(cmds) => cfgFile' = cfgFile]_vars

\* C14: a status command that finds a pid file naming a process that is
\* not running reports that focus is not running.
C14_StaleMarkerStatus ==
  [][(tpc = "init" /\ tpc' = "read" /\ pidFile # 0 /\ ~Alive(pidFile)) =>
       treport'[1] = "Focus is not running"]_vars

\* C18: status reports "running" exactly when the pid file exists, whether
\* or not the process it names is alive, reports "blocked" exactly when the
\* host file holds an opening marker with a closing marker after it, and
\* writes neither file.
C18_StatusReads ==
  [][/\ (tpc = "init" /\ tpc' = "read") =>
          /\ treport'[1] = "Focus is running" <=> pidFile # 0
          /\ treport'[1] = "Focus is not running" <=> pidFile = 0
          /\ files' = files
     /\ (tpc = "read" /\ tpc' = "done") =>
          /\ treport'[2] = "Sites are blocked" <=> RegionIn(hosts)
          /\ treport'[2] = "Sites are not blocked" <=> ~RegionIn(hosts)
          /\ files' = files]_vars

\* status has reported a session from the pid file of a process that has
\* ended, and a region from the host file
C18_Witness ==
  /\ tpc = "done"
  /\ treport = <<"Focus is running", "Sites are blocked">>
  /\ pidFile # 0 /\ ~Alive(pidFile)
  /\ RegionIn(hosts)

RECURSIVE Without(_, _)
\* c without every occurrence of every member of u
Without(c, u) ==
  IF c = <<>> THEN <<>>
  ELSE IF \E i \in 1..Len(u) : u[i] = Head(c) THEN Without(Tail(c), u)
  ELSE <<Head(c)>> \o Without(Tail(c), u)

\* C20: add with a non-empty list persists the previous list followed by
\* the given hosts, duplicates kept; remove with a non-empty list persists
\* the previous list without every occurrence of every given host, the
\* rest in order; with an empty list either leaves the configuration as it
\* was; neither touches the host file or the pid file.
C20_AddRemove ==
  [][Len(cmds') > Len(cmds) =>
       LET c == cmds'[Len(cmds')]
           u == c[2]
       IN  /\ (c[1] = "add" /\ u # <<>>) => cfgFile' = cfgFile \o u
           /\ (c[1] = "remove" /\ u # <<>>) => cfgFile' = Without(cfgFile, u)
           /\ u = <<>> => cfgFile' = cfgFile
           /\ hosts' = hosts /\ pidFile' = pidFile]_vars

\* a site already listed was added, then removed: both entries are gone
C20_Witness ==
  /\ cmds = << <<"add", <<"news.com", "example.com">> >>,
               <<"remove", <<"example.com">> >> >>
  /\ cfgFile = <<"news.com">>

\* C15: a session that ends because the host file cannot be read at its
\* start leaves no pid file of its own behind.
C15_FailedStartLeavesNothing ==
  [][\A p \in Procs :
       (pc[p] = "snapshot" /\ pc'[p] = "failed") => pidFile' # p]_vars

\* C16: a stop command or a Ctrl-C handler that has failed to read the
\* host file has still removed the pid file of the session it tears down.
C16_MarkerRemovedOnFailure ==
  /\ (spc = "panicked" /\ spid # 0) => pidFile # spid
  /\ \A p \in Procs : hpc[p] = "panicked" => pidFile # p

\* the watcher of p exists and the flag it shares has been set to false
Cancelled(p) == wpc[p] # "off" /\ ~running[p]

C19_NoNewTick ==
  \A p \in Procs :
    Cancelled(p) =>
      /\ ~running'[p]
      /\ wpc[p] \in {"check", "done"} => wpc'[p] \in {"check", "done", "off"}
      /\ wpc[p] = "read" => wpc'[p] \in {"read", "write", "check", "off"}
      /\ wpc[p] = "write" => wpc'[p] \in {"write", "check", "off"}

\* C19: once the flag is false the watcher starts no tick: from its loop
\* condition it only leaves the loop, and the tick it is in goes on to
\* its end with at most the one append of a tick; and the watcher ends (or
\* the process does).
C19_WatcherCancels ==
  /\ [][C19_NoNewTick]_vars
  /\ \A p \in Procs : Cancelled(p) ~> wpc[p] \in {"done", "off"}

\* the flag was set to false while the watcher was in a tick: the tick
\* appended the region after the restore, and the watcher has left its loop
C19_Witness ==
  \E p \in Procs :
    /\ pc[p] = "return" /\ ~running[p] /\ wpc[p] = "done" /\ ~foreign[p]
    /\ hosts = original[p] \o build_blocked_content(sites[p])
====
